---- MODULE Spec2Model ----
(***************************************************************************)
(* Model of src/auto_transcribe.py: GeminiTranscriber._parse_response,     *)
(* the tail of GeminiTranscriber.transcribe_audio, and                     *)
(* batch_transcribe_directory with ExportManager.to_notion_markdown.       *)
(*                                                                         *)
(* Texts are finite sequences of symbols.  The symbol "M" stands for the   *)
(* ten characters '[METADATA]' and "T" for the twelve characters           *)
(* '[TRANSCRIPT]'.  Both literals start with '[', end with ']' and hold no *)
(* other bracket, and no other symbol of the alphabet is a bracket or a    *)
(* letter of a marker, so in the texts modelled an occurrence of a marker  *)
(* literal is exactly an occurrence of its symbol: Python's `in` and       *)
(* str.split on a marker act on the symbols.  "NL" is '\n', "SP" a blank   *)
(* (both whitespace for str.strip), ":" the colon, "a" any other           *)
(* character.                                                              *)
(***************************************************************************)
EXTENDS Integers, Sequences, FiniteSets, TLC

VARIABLES pc, response_text, file_path, result, audio_result,
          metadata_section, metadata,
          entries, idx, invoked, outcome, outdir

vars == <<pc, response_text, file_path, result, audio_result,
          metadata_section, metadata,
          entries, idx, invoked, outcome, outdir>>

parseVars == <<response_text, file_path, result, audio_result>>
metaVars == <<metadata_section, metadata>>
batchVars == <<entries, idx, invoked, outcome, outdir>>

(***************************************************************************)
(* Bounds                                                                  *)
(***************************************************************************)
\* longest response text given to _parse_response
MaxLen == 5
\* longest metadata block given to the metadata loop
MaxBlockLen == 7
\* most entries in the input directory
MaxFiles == 3

(***************************************************************************)
(* Strings                                                                 *)
(***************************************************************************)
MetadataMarker == "M"
TranscriptMarker == "T"

Chars == {"M", "T", "a", ":", "NL", "SP"}
MetaChars == {"a", ":", "NL", "SP"}

\* response.text may be None
None == <<"None">>

Texts == UNION {[1..n -> Chars] : n \in 0..MaxLen}
MetaTexts == UNION {[1..n -> MetaChars] : n \in 0..MaxBlockLen}

\* str.isspace for the characters str.strip removes
IsSpace(c) == c \in {"NL", "SP"}

\* `c in s`
Contains(s, c) == \E k \in 1..Len(s) : s[k] = c

\* s.find(c) + 1: the first position of c in s, 0 when absent
RECURSIVE FindFrom(_, _, _)
FindFrom(s, c, k) ==
    IF k > Len(s) THEN 0
    ELSE IF s[k] = c THEN k
    ELSE FindFrom(s, c, k + 1)

Find(s, c) == FindFrom(s, c, 1)

\* s.split(c): every piece between successive occurrences of c
RECURSIVE Split(_, _)
Split(s, c) ==
    IF Find(s, c) = 0 THEN <<s>>
    ELSE <<SubSeq(s, 1, Find(s, c) - 1)>>
         \o Split(SubSeq(s, Find(s, c) + 1, Len(s)), c)

\* s.split(c, 1): split on the first occurrence only
Split1(s, c) ==
    IF Find(s, c) = 0 THEN <<s>>
    ELSE <<SubSeq(s, 1, Find(s, c) - 1), SubSeq(s, Find(s, c) + 1, Len(s))>>

RECURSIVE LStrip(_)
LStrip(s) ==
    IF s # <<>> /\ IsSpace(Head(s)) THEN LStrip(Tail(s)) ELSE s

RECURSIVE RStrip(_)
RStrip(s) ==
    IF s # <<>> /\ IsSpace(s[Len(s)]) THEN RStrip(SubSeq(s, 1, Len(s) - 1)) ELSE s

\* s.strip()
Strip(s) == RStrip(LStrip(s))

(***************************************************************************)
(* dict: a sequence of <<key, value>> pairs with distinct keys, in         *)
(* insertion order.  d[k] = v keeps the position of a key already present. *)
(***************************************************************************)
DictSet(d, k, v) ==
    IF \E p \in 1..Len(d) : d[p][1] = k
    THEN [p \in 1..Len(d) |-> IF d[p][1] = k THEN <<k, v>> ELSE d[p]]
    ELSE Append(d, <<k, v>>)

(***************************************************************************)
(* GeminiTranscriber._parse_response                                       *)
(***************************************************************************)
FilePaths == [name : {"rec.mp3"}, readable : BOOLEAN]

\* lines 105-109; processed_at (the wall clock) is left out
FileInfo(fp) == [filename |-> fp.name, file_size |-> "MB"]

\* line 112
IsStructured(t) == Contains(t, MetadataMarker) /\ Contains(t, TranscriptMarker)

\* line 113
MetadataSection_index0(t) ==
    Strip(Split(Split(t, MetadataMarker)[1], TranscriptMarker)[1])

MetadataSection(t) ==
    Strip(Split(Split(t, MetadataMarker)[2], TranscriptMarker)[1])

\* line 114
TranscriptSection_maxsplit(t) == Strip(Split1(t, TranscriptMarker)[2])

TranscriptSection(t) == Strip(Split(t, TranscriptMarker)[2])

\* lines 119-121: one pass of the loop body
MetadataLine_lastColon(d, line) ==
    IF Contains(line, ":")
    THEN LET k == CHOOSE j \in 1..Len(line) :
                      line[j] = ":" /\ \A m \in (j + 1)..Len(line) : line[m] # ":"
         IN DictSet(d, Strip(SubSeq(line, 1, k - 1)),
                       Strip(SubSeq(line, k + 1, Len(line))))
    ELSE d

MetadataLine(d, line) ==
    IF Contains(line, ":")
    THEN DictSet(d, Strip(Split1(line, ":")[1]), Strip(Split1(line, ":")[2]))
    ELSE d

RECURSIVE MetadataLoop(_, _)
MetadataLoop(lines, d) ==
    IF lines = <<>> THEN d
    ELSE MetadataLoop(Tail(lines), MetadataLine(d, Head(lines)))

\* lines 117-121
ParseMetadata(section) == MetadataLoop(Split(section, "NL"), <<>>)

\* lines 123-128
StructuredRecord(fi, t) ==
    [kind |-> "return", file_info |-> fi,
     metadata |-> ParseMetadata(MetadataSection(t)),
     transcript |-> TranscriptSection(t), raw_response |-> t]

\* lines 131-136
FallbackRecord_stripped(fi, t) ==
    [kind |-> "return", file_info |-> fi,
     metadata |-> <<(<<"Note", "Auto-generated transcript">>)>>,
     transcript |-> Strip(t), raw_response |-> t]

FallbackRecord(fi, t) ==
    [kind |-> "return", file_info |-> fi,
     metadata |-> <<(<<"Note", "Auto-generated transcript">>)>>,
     transcript |-> t, raw_response |-> t]

\* lines 140-145, reached with file_info bound
ErrorRecord(fi, t) ==
    [kind |-> "return", file_info |-> fi,
     metadata |-> <<(<<"Error", "Failed to parse structure">>)>>,
     transcript |-> t, raw_response |-> t]

\* an exception leaving the function
Raise(e) == [kind |-> "raise", exc |-> e]

NoResult == [kind |-> "none"]

\* lines 101-145.  os.path.getsize raising at line 107 enters the handler at
\* line 138 before file_info is bound, and line 141 then raises
\* UnboundLocalError out of the function.  A None response_text makes the
\* `in` of line 112 raise TypeError, which the handler turns into a record.
ParseResponseOf(t, fp) ==
    IF ~fp.readable THEN Raise("UnboundLocalError")
    ELSE IF t = None THEN ErrorRecord(FileInfo(fp), t)
    ELSE IF IsStructured(t) THEN StructuredRecord(FileInfo(fp), t)
    ELSE FallbackRecord(FileInfo(fp), t)

InitIdleParse ==
    /\ response_text = <<>>
    /\ file_path = [name |-> "rec.mp3", readable |-> TRUE]
    /\ result = NoResult
    /\ audio_result = NoResult

InitIdleMeta ==
    /\ metadata_section = <<>>
    /\ metadata = <<>>

InitIdleBatch ==
    /\ entries = <<>>
    /\ idx = 1
    /\ invoked = <<>>
    /\ outcome = <<>>
    /\ outdir = {}

InitParse ==
    /\ pc = "parse"
    /\ response_text \in Texts \cup {None}
    /\ file_path \in FilePaths
    /\ result = NoResult
    /\ audio_result = NoResult
    /\ InitIdleMeta
    /\ InitIdleBatch

\* the call of line 49
ParseResponse ==
    /\ pc = "parse"
    /\ result' = ParseResponseOf(response_text, file_path)
    /\ pc' = "parsed"
    /\ UNCHANGED <<response_text, file_path, audio_result, metaVars, batchVars>>

\* lines 49-53: transcribe_audio returns the record, or None when the
\* parser raised
TranscribeAudioReturn ==
    /\ pc = "parsed"
    /\ audio_result' = IF result.kind = "raise" THEN [kind |-> "None"] ELSE result
    /\ pc' = "done"
    /\ UNCHANGED <<response_text, file_path, result, metaVars, batchVars>>

NextParse == ParseResponse \/ TranscribeAudioReturn

SpecParse == InitParse /\ [][NextParse]_vars

(***************************************************************************)
(* The metadata loop of _parse_response on its own (lines 116-121)         *)
(***************************************************************************)
\* metadata_section is the result of a strip() (line 113)
InitMeta ==
    /\ pc = "meta"
    /\ metadata_section \in {s \in MetaTexts : Strip(s) = s}
    /\ metadata = <<>>
    /\ InitIdleParse
    /\ InitIdleBatch

ParseMetadataBlock ==
    /\ pc = "meta"
    /\ metadata' = ParseMetadata(metadata_section)
    /\ pc' = "metadone"
    /\ UNCHANGED <<metadata_section, parseVars, batchVars>>

NextMeta == ParseMetadataBlock

SpecMeta == InitMeta /\ [][NextMeta]_vars

(***************************************************************************)
(* batch_transcribe_directory                                              *)
(***************************************************************************)
\* line 269
AudioExtensions == {".mp3", ".wav", ".m4a", ".flac", ".aac", ".ogg"}

Stems == {"a", "b"}
Suffixes == {".mp3", ".WAV", ".txt"}

\* str.lower on the suffixes of the model (line 272)
Lower(sfx) == IF sfx = ".WAV" THEN ".wav" ELSE sfx

\* a directory entry: Path.stem, Path.suffix, and whether it is a directory
Entry == [stem : Stems, suffix : Suffixes, is_dir : BOOLEAN]

\* Path.name
Name(e) == <<e.stem, e.suffix>>

\* Path(input_directory).iterdir(): entries with distinct names, in any order
Listings ==
    {l \in UNION {[1..n -> Entry] : n \in 0..MaxFiles} :
        \A j, k \in 1..Len(l) : j # k => Name(l[j]) # Name(l[k])}

\* line 272
IsAudioSuffix(e) == Lower(e.suffix) \in AudioExtensions

\* lines 282-285: f"{output_directory}/{base_name}_transcript.md"
OutputPath(e) == <<"transcripts", e.stem, "_transcript.md">>

\* lines 179-180: open(output_path, 'w') and write replace what is there
WriteFile(dir, path, name) ==
    {f \in dir : f.path # path} \cup {[path |-> path, filename |-> name]}

\* What one pass of lines 277-289 can end with.  transcribe_audio returns
\* None when the upload (line 33), the generation (line 43) or the parser
\* (line 49) raises; open() raising in to_notion_markdown (line 179) is
\* caught at line 288.  Uploading a directory fails.
Outcomes(e) ==
    IF e.is_dir THEN {"upload_error"}
    ELSE {"upload_error", "generate_error", "parse_error", "export_error", "exported"}

InitBatch ==
    /\ pc = "loop"
    /\ entries \in Listings
    /\ idx = 1
    /\ invoked = [k \in 1..Len(entries) |-> 0]
    /\ outcome = [k \in 1..Len(entries) |-> "pending"]
    /\ outdir = {}
    /\ InitIdleParse
    /\ InitIdleMeta

\* line 272 false: the entry is passed over
SkipEntry ==
    /\ pc = "loop"
    /\ idx <= Len(entries)
    /\ ~IsAudioSuffix(entries[idx])
    /\ outcome' = [outcome EXCEPT ![idx] = "skipped"]
    /\ idx' = idx + 1
    /\ UNCHANGED <<pc, entries, invoked, outdir, parseVars, metaVars>>

\* lines 273-289: one pass of the loop body for a matching entry
ProcessEntry ==
    /\ pc = "loop"
    /\ idx <= Len(entries)
    /\ IsAudioSuffix(entries[idx])
    /\ \E o \in Outcomes(entries[idx]) :
        /\ invoked' = [invoked EXCEPT ![idx] = @ + 1]
        /\ outcome' = [outcome EXCEPT ![idx] = o]
        /\ outdir' = IF o = "exported"
                     THEN WriteFile(outdir, OutputPath(entries[idx]), Name(entries[idx]))
                     ELSE outdir
    /\ idx' = idx + 1
    /\ UNCHANGED <<pc, entries, parseVars, metaVars>>

\* the iterator is exhausted: the function returns
FinishBatch ==
    /\ pc = "loop"
    /\ idx > Len(entries)
    /\ pc' = "batchdone"
    /\ UNCHANGED <<entries, idx, invoked, outcome, outdir, parseVars, metaVars>>

NextBatch == SkipEntry \/ ProcessEntry \/ FinishBatch

SpecBatch == InitBatch /\ [][NextBatch]_vars

(***************************************************************************)
(* The whole program                                                       *)
(***************************************************************************)
Init == InitParse \/ InitMeta \/ InitBatch

Next == NextParse \/ NextMeta \/ NextBatch

Spec == Init /\ [][Next]_vars

(***************************************************************************)
(* Properties of the parser (checked under SpecParse)                      *)
(***************************************************************************)
Markers == {MetadataMarker, TranscriptMarker}

Occurs(t, c) == \E k \in DOMAIN t : t[k] = c

\* the position of the first occurrence of c in t (c occurs in t)
FirstIndex(t, c) ==
    CHOOSE k \in DOMAIN t : t[k] = c /\ \A m \in 1..(k - 1) : t[m] # c

\* s without its leading and trailing whitespace
Trimmed(s) ==
    IF \A k \in DOMAIN s : IsSpace(s[k]) THEN <<>>
    ELSE LET lo == CHOOSE k \in DOMAIN s :
                       ~IsSpace(s[k]) /\ \A m \in 1..(k - 1) : IsSpace(s[m])
             hi == CHOOSE k \in DOMAIN s :
                       ~IsSpace(s[k]) /\ \A m \in (k + 1)..Len(s) : IsSpace(s[m])
         IN SubSeq(s, lo, hi)

\* the parser has ended by returning a record
Returned == pc \in {"parsed", "done"} /\ result.kind = "return"

\* a text was given and it holds both markers
BothMarkers == response_text # None /\ \A c \in Markers : Occurs(response_text, c)

\* a text was given and at least one marker is missing from it
LacksMarker == response_text # None /\ \E c \in Markers : ~Occurs(response_text, c)

IsSentinel(md) == Len(md) = 1 /\ md[1][1] \in {"Note", "Error"}

\* C1: the parser never raises: whenever it has ended, it has ended by
\* returning a record with the four fields.
C1_NeverRaises ==
    pc \in {"parsed", "done"} =>
        /\ result.kind = "return"
        /\ {"file_info", "metadata", "transcript", "raw_response"} \subseteq DOMAIN result

\* C2: when [TRANSCRIPT] first occurs before [METADATA], the record is the
\* fallback record: the transcript is the whole text and the metadata is the
\* single sentinel entry.
C2_ReversedIsFallback ==
    (Returned /\ BothMarkers
        /\ FirstIndex(response_text, TranscriptMarker)
             < FirstIndex(response_text, MetadataMarker))
    => (result.transcript = response_text /\ IsSentinel(result.metadata))

\* C3 as stated: every record returned has a non-empty metadata mapping.
C3_MetadataNeverEmpty == Returned => Len(result.metadata) >= 1

\* a colon stands between the first [METADATA] and the next marker after it
\* (or the end of the text)
ColonInMetadataBlock(t) ==
    LET i == FirstIndex(t, MetadataMarker)
    IN \E k \in (i + 1)..Len(t) :
           t[k] = ":" /\ \A m \in (i + 1)..(k - 1) : t[m] \notin Markers

\* C3 as amended: on the fallback path the metadata is exactly one sentinel
\* entry; on the structured path it is non-empty exactly when the metadata
\* block holds a colon, and empty otherwise.
C3_MetadataEmptyOnlyWithoutColon ==
    Returned =>
        IF BothMarkers
        THEN (Len(result.metadata) >= 1) <=> ColonInMetadataBlock(response_text)
        ELSE IsSentinel(result.metadata)

\* C3 witness: a structured parse whose metadata block has no colon.
C3_Witness == Returned /\ BothMarkers /\ result.metadata = <<>>

\* C5: a text lacking a marker gives one metadata entry, the whole text
\* untrimmed as transcript, and the text as raw_response; raw_response is the
\* text on the structured path too.
C5_FallbackKeepsText ==
    (Returned /\ response_text # None) =>
        /\ result.raw_response = response_text
        /\ LacksMarker =>
            /\ Len(result.metadata) = 1
            /\ result.transcript = response_text

\* C5 witness: a fallback record for a text that starts with whitespace and
\* holds one of the markers.
C5_Witness ==
    /\ Returned
    /\ LacksMarker
    /\ Occurs(response_text, MetadataMarker)
    /\ IsSpace(response_text[1])
    /\ result.transcript = response_text

\* C6: on the structured path the transcript is everything after the
\* transcript marker, trimmed, and the metadata block is the text between
\* the two markers.
C6_StructuredSlices ==
    (Returned /\ BothMarkers
        /\ FirstIndex(response_text, MetadataMarker)
             < FirstIndex(response_text, TranscriptMarker))
    => LET i == FirstIndex(response_text, MetadataMarker)
           j == FirstIndex(response_text, TranscriptMarker)
       IN /\ result.transcript
               = Trimmed(SubSeq(response_text, j + 1, Len(response_text)))
          /\ result.metadata
               = ParseMetadata(Trimmed(SubSeq(response_text, i + 1, j - 1)))

\* C8 as stated: the transcript of a record is never a literal marker.
C8_TranscriptNeverMarker ==
    Returned => \A c \in Markers : result.transcript # <<c>>

\* C8 as amended: on the structured path the transcript is never the
\* literal [TRANSCRIPT]; on the fallback path it is a literal marker only
\* when the raw text is exactly that marker.
C8_TranscriptMarkerOnlyFromInput ==
    Returned =>
        /\ BothMarkers => result.transcript # <<TranscriptMarker>>
        /\ LacksMarker =>
             \A c \in Markers : result.transcript = <<c>> => response_text = <<c>>

\* C8 witness: a structured parse of a text in which [TRANSCRIPT] occurs
\* twice, and a transcript that is a literal marker.
C8_Witness ==
    /\ Returned
    /\ BothMarkers
    /\ Cardinality({k \in DOMAIN response_text : response_text[k] = TranscriptMarker}) >= 2
    /\ result.transcript = <<MetadataMarker>>

(***************************************************************************)
(* Properties of the metadata loop (checked under SpecMeta)                *)
(***************************************************************************)
\* the lines of the block that hold a colon, in order
ColonLines == SelectSeq(Split(metadata_section, "NL"), LAMBDA l : Occurs(l, ":"))

\* the trimmed text before, and after, the first colon of a line
KeyOf(l) == Trimmed(SubSeq(l, 1, FirstIndex(l, ":") - 1))
ValueOf(l) == Trimmed(SubSeq(l, FirstIndex(l, ":") + 1, Len(l)))

\* C7 as stated: the mapping holds exactly one entry per colon-bearing line,
\* in the order of the lines.
C7_OneEntryPerColonLine ==
    pc = "metadone" =>
        metadata = [p \in 1..Len(ColonLines) |->
                        <<KeyOf(ColonLines[p]), ValueOf(ColonLines[p])>>]

\* the first and the last colon-bearing line with key k
FirstLineOf(k) ==
    CHOOSE p \in DOMAIN ColonLines :
        KeyOf(ColonLines[p]) = k /\ \A q \in 1..(p - 1) : KeyOf(ColonLines[q]) # k
LastLineOf(k) ==
    CHOOSE p \in DOMAIN ColonLines :
        KeyOf(ColonLines[p]) = k
        /\ \A q \in (p + 1)..Len(ColonLines) : KeyOf(ColonLines[q]) # k

\* C7 as amended: the mapping has one entry per distinct key of the
\* colon-bearing lines (key and value split at the first colon and trimmed),
\* holding the value of the last line with that key, the keys in the order
\* of their first appearance; lines without a colon yield nothing.
C7_LastValueFirstPosition ==
    pc = "metadone" =>
        /\ \A p, q \in DOMAIN metadata : p # q => metadata[p][1] # metadata[q][1]
        /\ {metadata[p][1] : p \in DOMAIN metadata}
             = {KeyOf(ColonLines[p]) : p \in DOMAIN ColonLines}
        /\ \A p \in DOMAIN metadata :
             metadata[p][2] = ValueOf(ColonLines[LastLineOf(metadata[p][1])])
        /\ \A p, q \in DOMAIN metadata :
             p < q => FirstLineOf(metadata[p][1]) < FirstLineOf(metadata[q][1])

\* C7 witness: three colon-bearing lines, the first and the last with the
\* same key and different values, giving two entries.
C7_Witness ==
    /\ pc = "metadone"
    /\ Len(ColonLines) = 3
    /\ KeyOf(ColonLines[1]) = KeyOf(ColonLines[3])
    /\ ValueOf(ColonLines[1]) # ValueOf(ColonLines[3])
    /\ Len(metadata) = 2

(***************************************************************************)
(* Properties of the batch run (checked under SpecBatch)                   *)
(***************************************************************************)
CollaboratorFailures == {"upload_error", "generate_error", "parse_error"}

\* the artifact rendered from entry e is in the output directory
ArtifactOf(e) ==
    \E f \in outdir : f.path = OutputPath(e) /\ f.filename = Name(e)

\* C4: every matching file is attempted exactly once, and when the run ends
\* there is a rendered artifact for each file that succeeded and none at the
\* output path of a file whose collaborator call failed.
C4_BatchIsolation ==
    pc = "batchdone" =>
        \A k \in DOMAIN entries :
            IsAudioSuffix(entries[k]) =>
                /\ invoked[k] = 1
                /\ outcome[k] = "exported" => ArtifactOf(entries[k])
                /\ outcome[k] \in CollaboratorFailures =>
                     ~\E f \in outdir : f.path = OutputPath(entries[k])

\* the part of C4 the loop does keep: every matching entry is attempted
\* exactly once whatever the earlier entries ended with, and the loop
\* reaches the end of the listing.
BatchAttemptsEveryMatch ==
    /\ \A k \in DOMAIN entries :
           invoked[k] = (IF k < idx /\ IsAudioSuffix(entries[k]) THEN 1 ELSE 0)
    /\ pc = "batchdone" => idx = Len(entries) + 1

\* C9: transcribe_audio is invoked for an entry exactly when the entry is a
\* file with a recognised audio extension; never for a subdirectory.
C9_OnlyAudioFiles ==
    \A k \in 1..(idx - 1) :
        (invoked[k] > 0) <=> (~entries[k].is_dir /\ IsAudioSuffix(entries[k]))

\* C10: two distinct files that were both exported have different output
\* paths, and the output directory ends with one artifact per exported file.
C10_NoOverwrite ==
    pc = "batchdone" =>
        /\ \A j, k \in DOMAIN entries :
               (j # k /\ outcome[j] = "exported" /\ outcome[k] = "exported")
               => OutputPath(entries[j]) # OutputPath(entries[k])
        /\ Cardinality(outdir)
             = Cardinality({k \in DOMAIN entries : outcome[k] = "exported"})

====
